---- MODULE Spec2Model ----
(***************************************************************************)
(* A model of image_recovery/linalg.py: the quaternion algebra             *)
(* (conjugate, frobenius_norm, qdot), the quaternion <-> complex matrix    *)
(* maps (qm2cm, cm2qm) and the rank-adaptive completion loop (lrqmc).      *)
(*                                                                         *)
(* Numbers are integers.  A complex number is a pair <<re, im>>, a         *)
(* quaternion matrix is a sequence of rows of pixels Q[i][j][k], a complex *)
(* matrix is a sequence of rows C[i][j].  Python's None is the empty       *)
(* sequence <<>>; an optional integer is <<>> or <<n>>.  A square root is  *)
(* kept as the record [radicand |-> s] that stands for sqrt(s).            *)
(*                                                                         *)
(* lrqmc computes in floating point with factors U and V that start as     *)
(* draws of np.random.uniform and are then solutions of regularised least  *)
(* squares problems.  Integer arithmetic cannot reproduce these numbers,   *)
(* and the model does not invent them: an entry of U or V is a NAME,       *)
(* <<"U", g, i, k>> for entry (i, k) of the U assigned by the g-th         *)
(* execution of line 251 (g = 0: the draw of line 241), likewise "V".  A   *)
(* complex number of lrqmc is a TERM: an exactly known part plus a formal  *)
(* sum of signed products of names.  Sums, differences, slices and norms   *)
(* of terms are formed as the code forms them; what depends on the         *)
(* unknown numbers (the eigenvalues of line 256, and the tolerance test of *)
(* line 273 when a norm has an unknown part) is a choice among the         *)
(* outcomes.                                                               *)
(***************************************************************************)
EXTENDS Integers, Sequences, FiniteSets, TLC

VARIABLES
    fn,            \* the API function the caller invoked ("none" before the call)
    pc,            \* position inside the call
    exc,           \* the exception raised ("" when none)
    result,        \* the value returned (<<>> when none)
    qmat,          \* first tensor argument (Q, Q1, qmat)
    Q2,            \* second tensor argument of qdot
    C,             \* complex matrix argument of cm2qm
    mask,          \* lrqmc: the observation mask
    init_rank,     \* lrqmc: <<>> (None) or <<r>>
    max_iter,      \* lrqmc
    rot,           \* lrqmc: <<numerator, denominator>>
    rank_mult,     \* lrqmc: <<numerator, denominator>>
    return_norms,  \* lrqmc
    seeded,        \* lrqmc: np.random.seed was called
    X, X0,         \* lrqmc locals: matrices of terms
    mask_c,        \* lrqmc local
    c_rank,        \* lrqmc local
    U, V,          \* lrqmc locals: matrices of names
    norms,         \* lrqmc local: one slot per index, each a square root
    flag, ix,      \* lrqmc locals
    updates        \* number of executions of lines 251-254

vars == <<fn, pc, exc, result, qmat, Q2, C, mask, init_rank, max_iter, rot,
          rank_mult, return_norms, seeded, X, X0, mask_c, c_rank, U, V,
          norms, flag, ix, updates>>

----------------------------------------------------------------------------
(* Bounds of the model *)

\* pure functions: row and column counts range over 1..MaxAlgDim
MaxAlgDim == 2

\* lrqmc: image row and column counts range over 2..MaxDim
MaxDim == 3

\* lrqmc: max_iter ranges over 0..MaxIter
MaxIter == 3

----------------------------------------------------------------------------
(* Values and shapes *)

None == <<>>

Raise(e) == [exc |-> e, val |-> None]

Return(v) == [exc |-> "", val |-> v]

Max(a, b) == IF a >= b THEN a ELSE b

Min(a, b) == IF a <= b THEN a ELSE b

\* A.shape[0], A.shape[1], A.shape[2]
Shape0(A) == Len(A)

Shape1(A) == Len(A[1])

Shape2(A) == Len(A[1][1])

RECURSIVE SumSeq(_)
SumSeq(s) == IF s = <<>> THEN 0 ELSE s[1] + SumSeq(Tail(s))

\* the entries of a matrix, row after row
RECURSIVE Flatten(_)
Flatten(A) == IF A = <<>> THEN <<>> ELSE A[1] \o Flatten(Tail(A))

(* complex arithmetic on pairs <<re, im>> *)
CAdd(a, b) == <<a[1] + b[1], a[2] + b[2]>>

CSub(a, b) == <<a[1] - b[1], a[2] - b[2]>>

CMul(a, b) == <<a[1] * b[1] - a[2] * b[2], a[1] * b[2] + a[2] * b[1]>>

CNeg(a) == <<-a[1], -a[2]>>

CConj(a) == <<a[1], -a[2]>>

CAbsSq(a) == a[1] * a[1] + a[2] * a[2]

CReal(x) == <<x, 0>>

CImagUnit == <<0, 1>>

RECURSIVE CSumSeq(_)
CSumSeq(s) == IF s = <<>> THEN <<0, 0>> ELSE CAdd(s[1], CSumSeq(Tail(s)))

\* A.dot(B) for complex matrices A (n x r) and B (r x m)
CDot(A, B) ==
    [i \in 1..Len(A) |->
        [j \in 1..Len(B[1]) |->
            CSumSeq([s \in 1..Len(B) |-> CMul(A[i][s], B[s][j])])]]

\* np.sqrt(s)
Sqrt(s) == [radicand |-> s]

----------------------------------------------------------------------------
(* Quaternion algebra *)

\* linalg.py 12-37
conjugate(Q) ==
    IF Shape2(Q) # 4
    THEN Raise("ValueError")
    ELSE Return([i \in 1..Shape0(Q) |-> [j \in 1..Shape1(Q) |->
            SubSeq(Q[i][j], 1, 1) \o [k \in 1..3 |-> -Q[i][j][k + 1]]]])

\* linalg.py 40-63
frobenius_norm(Q) ==
    IF Shape2(Q) # 4
    THEN Raise("ValueError")
    ELSE LET flat == Flatten(Flatten(Q))
         IN  Return(Sqrt(SumSeq([p \in 1..Len(flat) |-> flat[p] * flat[p]])))

\* np.einsum("isk, sjk -> ij", A, B)
Einsum(A, B) ==
    [i \in 1..Shape0(A) |-> [j \in 1..Shape1(B) |->
        SumSeq([s \in 1..Shape0(B) |->
            SumSeq([k \in 1..Shape2(A) |-> A[i][s][k] * B[s][j][k]])])]]

\* B[:, :, perm] * np.array(sign)[None, None, :]; perm holds 0-based indices
PermSign(B, perm, sign) ==
    [s \in 1..Shape0(B) |-> [j \in 1..Shape1(B) |->
        [k \in 1..4 |-> B[s][j][perm[k] + 1] * sign[k]]]]

\* np.stack([A0, A1, A2, A3], axis=2)
Stack4(A0, A1, A2, A3) ==
    [i \in 1..Len(A0) |-> [j \in 1..Len(A0[1]) |->
        <<A0[i][j], A1[i][j], A2[i][j], A3[i][j]>>]]

\* linalg.py 91-96 with a sign slip in the k component
qdot_signslip(Q1, Q2_) ==
    IF (Shape2(Q1) # 4 \/ Shape2(Q2_) # 4) \/ (Shape1(Q1) # Shape0(Q2_))
    THEN Raise("ValueError")
    ELSE Return(Stack4(
            Einsum(Q1, PermSign(Q2_, <<0, 1, 2, 3>>, <<1, -1, -1, -1>>)),
            Einsum(Q1, PermSign(Q2_, <<1, 0, 3, 2>>, <<1, 1, 1, -1>>)),
            Einsum(Q1, PermSign(Q2_, <<2, 3, 0, 1>>, <<1, -1, 1, 1>>)),
            Einsum(Q1, PermSign(Q2_, <<3, 2, 1, 0>>, <<1, -1, 1, 1>>))))

\* linalg.py 66-96
qdot(Q1, Q2_) ==
    IF (Shape2(Q1) # 4 \/ Shape2(Q2_) # 4) \/ (Shape1(Q1) # Shape0(Q2_))
    THEN Raise("ValueError")
    ELSE Return(Stack4(
            Einsum(Q1, PermSign(Q2_, <<0, 1, 2, 3>>, <<1, -1, -1, -1>>)),
            Einsum(Q1, PermSign(Q2_, <<1, 0, 3, 2>>, <<1, 1, 1, -1>>)),
            Einsum(Q1, PermSign(Q2_, <<2, 3, 0, 1>>, <<1, -1, 1, 1>>)),
            Einsum(Q1, PermSign(Q2_, <<3, 2, 1, 0>>, <<1, 1, -1, 1>>))))

----------------------------------------------------------------------------
(* Matrix transformations *)

\* Q[:, :, a] + 1j * Q[:, :, b], with 0-based component indices a, b
ComplexHalf(Q, a, b) ==
    [i \in 1..Shape0(Q) |-> [j \in 1..Shape1(Q) |->
        CAdd(CReal(Q[i][j][a + 1]), CMul(CImagUnit, CReal(Q[i][j][b + 1])))]]

\* np.vstack([np.hstack([Qa, Qb]), np.hstack([-np.conj(Qb), np.conj(Qa)])])
BlockMatrix(Qa, Qb) ==
    [i \in 1..Len(Qa) |-> Qa[i] \o Qb[i]]
    \o [i \in 1..Len(Qa) |->
            [j \in 1..Len(Qb[1]) |-> CNeg(CConj(Qb[i][j]))]
            \o [j \in 1..Len(Qa[1]) |-> CConj(Qa[i][j])]]

\* np.tile(m, (2, 2))
Tile22(m) ==
    [i \in 1..2 * Len(m) |-> [j \in 1..2 * Len(m[1]) |->
        m[((i - 1) % Len(m)) + 1][((j - 1) % Len(m[1])) + 1]]]

\* linalg.py 126-142 with the shape test letting a longer last axis through
qm2cm_laxcheck(Q, m) ==
    IF Shape2(Q) < 4
    THEN Raise("ValueError")
    ELSE Return(<<BlockMatrix(ComplexHalf(Q, 0, 1), ComplexHalf(Q, 2, 3)),
                  IF m = None THEN None ELSE Tile22(m)>>)

\* linalg.py 104-142
qm2cm(Q, m) ==
    IF Shape2(Q) # 4
    THEN Raise("ValueError")
    ELSE Return(<<BlockMatrix(ComplexHalf(Q, 0, 1), ComplexHalf(Q, 2, 3)),
                  IF m = None THEN None ELSE Tile22(m)>>)

\* A[r0:r1, c0:c1] with 0-based half-open bounds
Slice(A, r0, r1, c0, c1) ==
    [i \in 1..(r1 - r0) |-> [j \in 1..(c1 - c0) |-> A[r0 + i][c0 + j]]]

\* linalg.py 170-175 reading Qb from the bottom-left quadrant
cm2qm_wrongquadrant(C_) ==
    IF (Shape0(C_) % 2) # 0 \/ (Shape1(C_) % 2) # 0
    THEN Raise("ValueError")
    ELSE LET Qa == Slice(C_, 0, Shape0(C_) \div 2, 0, Shape1(C_) \div 2)
             Qb == Slice(C_, Shape0(C_) \div 2, Shape0(C_), 0, Shape1(C_) \div 2)
         IN  Return([i \in 1..Len(Qa) |-> [j \in 1..Len(Qa[1]) |->
                <<Qa[i][j][1], Qa[i][j][2], Qb[i][j][1], Qb[i][j][2]>>]])

\* linalg.py 145-175
cm2qm(C_) ==
    IF (Shape0(C_) % 2) # 0 \/ (Shape1(C_) % 2) # 0
    THEN Raise("ValueError")
    ELSE LET Qa == Slice(C_, 0, Shape0(C_) \div 2, 0, Shape1(C_) \div 2)
             Qb == Slice(C_, 0, Shape0(C_) \div 2, Shape1(C_) \div 2, Shape1(C_))
         IN  Return([i \in 1..Len(Qa) |-> [j \in 1..Len(Qa[1]) |->
                <<Qa[i][j][1], Qa[i][j][2], Qb[i][j][1], Qb[i][j][2]>>]])

----------------------------------------------------------------------------
(* Matrix recovery: the pieces of lrqmc *)

\* linalg.py 235-238
InitRank(init_rank_, N, M) ==
    IF (init_rank_ = None \/ init_rank_[1] = 0) \/ (init_rank_[1] > Min(N, M))
    THEN Min(N, M)
    ELSE init_rank_[1]

(* Terms: the complex numbers of lrqmc.  A term is the pair <<real part,  *)
(* imaginary part>> of the number known + sum of unknown, where known is   *)
(* an exact complex number and unknown a sequence of monomials             *)
(* <<sign, u, v>>, each the signed product of the named entries u of U and *)
(* v of V.                                                                 *)
Term(z, s) ==
    <<[known |-> z[1], part |-> "re", unknown |-> s],
      [known |-> z[2], part |-> "im", unknown |-> s]>>

\* an exactly known complex number
Known(z) == Term(z, <<>>)

KnownPart(t) == <<t[1].known, t[2].known>>

UnknownPart(t) == t[1].unknown

IsKnown(t) == UnknownPart(t) = <<>>

\* the complex matrix A as a matrix of terms
KnownMatrix(A) == [i \in 1..Len(A) |-> [j \in 1..Len(A[1]) |-> Known(A[i][j])]]

Opposite(m) == <<-m[1], m[2], m[3]>>

InSeq(m, q) == \E p \in 1..Len(q) : q[p] = m

\* the formal sum p + q, a monomial and its opposite cancelling (in floating
\* point (x + e) - e differs from x by a rounding error, orders of magnitude
\* below rel_tol)
Merge(p, q) ==
    SelectSeq(p, LAMBDA m : ~InSeq(Opposite(m), q))
    \o SelectSeq(q, LAMBDA m : ~InSeq(Opposite(m), p))

TAdd(a, b) ==
    Term(CAdd(KnownPart(a), KnownPart(b)), Merge(UnknownPart(a), UnknownPart(b)))

TSub(a, b) ==
    Term(CSub(KnownPart(a), KnownPart(b)),
         Merge(UnknownPart(a),
               [p \in 1..Len(UnknownPart(b)) |-> Opposite(UnknownPart(b)[p])]))

\* linalg.py 241, 251: the n x r matrix U assigned by generation g
FactorU(n, r, g) == [i \in 1..n |-> [k \in 1..r |-> <<"U", g, i, k>>]]

\* linalg.py 242, 252: the r x m matrix V assigned by generation g
FactorV(r, m, g) == [k \in 1..r |-> [j \in 1..m |-> <<"V", g, k, j>>]]

\* U.dot(V) for matrices of names: entry (i, j) is the sum over k of
\* U[i][k]*V[k][j]
FactorDot(U_, V_) ==
    [i \in 1..Len(U_) |-> [j \in 1..Len(V_[1]) |->
        Term(<<0, 0>>, [k \in 1..Len(V_) |-> <<1, U_[i][k], V_[k][j]>>])]]

\* X - U.dot(V) for matrices of terms of one shape
Residual(X_, E) ==
    [i \in 1..Len(X_) |-> [j \in 1..Len(X_[1]) |-> TSub(X_[i][j], E[i][j])]]

\* np.linalg.norm(A): the square root of the sum of |a|^2 over the entries,
\* the sum kept as the integer the known entries add up to and the sequence
\* of the entries with an unknown part
Norm(A) ==
    LET flat == Flatten(A)
        exact == SelectSeq(flat, IsKnown)
    IN  Sqrt([known |-> SumSeq([p \in 1..Len(exact) |-> CAbsSq(KnownPart(exact[p]))]),
              unknown |-> SelectSeq(flat, LAMBDA t : ~IsKnown(t))])

\* linalg.py 244: an entry of np.zeros
ZeroNorm == Sqrt([known |-> 0, unknown |-> <<>>])

\* linalg.py 253-254 adding the estimate at every entry, observed or not
Reimpose_nomask(X0_, mask_c_, E) ==
    [i \in 1..Len(X0_) |-> [j \in 1..Len(X0_[1]) |-> TAdd(X0_[i][j], E[i][j])]]

\* linalg.py 253-254: X = X0.copy(); X[~mask_c] += E[~mask_c]
Reimpose(X0_, mask_c_, E) ==
    [i \in 1..Len(X0_) |-> [j \in 1..Len(X0_[1]) |->
        IF ~mask_c_[i][j] THEN TAdd(X0_[i][j], E[i][j]) ELSE X0_[i][j]]]

\* linalg.py 257: eigvs[:-1] / eigvs[1:], each quotient a pair <<num, den>>
Quots(e) == [i \in 1..(Len(e) - 1) |-> <<e[i], e[i + 1]>>]

\* q1 <= q2 for quotients of positive numbers
QuotLeq(q1, q2) == q1[1] * q2[2] <= q2[1] * q1[2]

\* linalg.py 258: np.argmax, the 0-based index of the first maximum
ArgMax(q) ==
    CHOOSE k \in 0..(Len(q) - 1) :
        /\ \A j \in 1..Len(q) : QuotLeq(q[j], q[k + 1])
        /\ \A j \in 1..k : ~QuotLeq(q[k + 1], q[j])

\* linalg.py 259, as the pair <<numerator, denominator>>
Mu(c_rank_, e, max_ind) ==
    <<(c_rank_ - 1) * e[max_ind + 1], SumSeq(e) - e[max_ind + 1]>>

\* linalg.py 261: mu > rot
Overestimated(mu, rot_) == mu[1] * rot_[2] > rot_[1] * mu[2]

\* linalg.py 262 with the 0-based index turned into a count one too high
NewRank_offbyone(max_ind, c_rank_, rank_mult_) ==
    Max(max_ind + 3, (c_rank_ * rank_mult_[1]) \div rank_mult_[2])

\* linalg.py 262: max(max_ind + 2, int(c_rank*rank_mult))
NewRank(max_ind, c_rank_, rank_mult_) ==
    Max(max_ind + 2, (c_rank_ * rank_mult_[1]) \div rank_mult_[2])

\* linalg.py 263: U[:, :r]; a slice past the end stops at the end
Columns(U_, r) == [i \in 1..Len(U_) |-> SubSeq(U_[i], 1, Min(r, Len(U_[i])))]

\* linalg.py 264: V[:r, :]
Rows(V_, r) == SubSeq(V_, 1, Min(r, Len(V_)))

\* x * k < y for k > 0 and y >= 0, computed without forming x * k
ScaledLess(x, k, y) ==
    IF x <= 0 THEN (x < 0 \/ y > 0) ELSE (y > 0 /\ x <= (y - 1) \div k)

\* linalg.py 273: abs(n1 - n0)/n0 < rel_tol for n1 = sqrt(s1), n0 = sqrt(s0)
\* and rel_tol = t[1]/t[2] < 1.  The test is (1 - t)^2 s0 < s1 < (1 + t)^2 s0,
\* that is t[2]^2 (s0 - s1) < (2 t[1] t[2] - t[1]^2) s0 and
\* t[2]^2 (s1 - s0) < (2 t[1] t[2] + t[1]^2) s0.  A zero n0 makes the quotient
\* inf or nan, and the test fails.
Converged(s1, s0, t) ==
    /\ ScaledLess(s0 - s1, t[2] * t[2], (2 * t[1] * t[2] - t[1] * t[1]) * s0)
    /\ ScaledLess(s1 - s0, t[2] * t[2], (2 * t[1] * t[2] + t[1] * t[1]) * s0)

\* linalg.py 273: the outcomes of the tolerance test on the norms n1 and n0.
\* Two exactly known norms decide it; otherwise the outcome depends on the
\* numbers drawn at lines 241-242, and either happens.
ToleranceOutcomes(n1, n0, t) ==
    LET s1 == n1.radicand
        s0 == n0.radicand
    IN  IF s1.unknown = <<>> /\ s0.unknown = <<>>
        THEN {Converged(s1.known, s0.known, t)}
        ELSE BOOLEAN

\* linalg.py 183: rel_tol = 1e-3
RelTol == <<1, 1000>>

----------------------------------------------------------------------------
(* The inputs the caller draws from *)

LastAxes == {3, 4, 5}

Palette == << <<0, 0, 0, 0>>, <<1, 0, 0, 0>>, <<0, 1, 0, 0>>,
              <<0, 0, 1, 0>>, <<0, 0, 0, 1>>, <<1, -2, 3, -1>> >>

\* pixel p of the palette on a last axis of length D
Pixel(D, p) == [k \in 1..D |-> IF k <= 4 THEN Palette[p][k] ELSE 0]

\* the N x M x D tensor whose pixel (i, j) is palette entry a*i + b*j + c
Tensor(N, M, D, a, b, c) ==
    [i \in 1..N |-> [j \in 1..M |->
        Pixel(D, ((a * (i - 1) + b * (j - 1) + c) % Len(Palette)) + 1)]]

AlgTensors ==
    { Tensor(N, M, 4, ab[1], ab[2], c) :
        N \in 1..MaxAlgDim, M \in 1..MaxAlgDim,
        ab \in {<<0, 1>>, <<1, 2>>}, c \in 0..(Len(Palette) - 1) }
    \cup { Tensor(N, M, D, 1, 1, 1) :
        N \in 1..MaxAlgDim, M \in 1..MaxAlgDim, D \in LastAxes \ {4} }

AlgMatrices ==
    { [i \in 1..n |-> [j \in 1..m |-> <<i - j, i + j>>]] :
        n \in 1..(2 * MaxAlgDim), m \in 1..(2 * MaxAlgDim) }

\* the N x M mask that is True where a*i + b*j + c is even
MaskOf(N, M, abc) ==
    [i \in 1..N |-> [j \in 1..M |-> ((abc[1] * i + abc[2] * j + abc[3]) % 2) = 0]]

MaskPatterns == {<<0, 0, 0>>, <<0, 0, 1>>, <<1, 1, 0>>}

\* m has a True entry
AnyObserved(m) == \E i \in 1..Len(m), j \in 1..Len(m[1]) : m[i][j]

\* the image with its unobserved pixels set to zero
Blanked(Q, m) ==
    [i \in 1..Len(Q) |-> [j \in 1..Len(Q[1]) |->
        IF m[i][j] THEN Q[i][j] ELSE [k \in 1..Len(Q[i][j]) |-> 0]]]

InitRanks == {None} \cup { <<r>> : r \in -1..(MaxDim + 1) }

Rots == {<<1, 1>>, <<10, 1>>}

RankMults == {<<1, 2>>, <<9, 10>>}

\* the eigenvalues of U^H U, sorted in descending order
EigSeqs(r) == { [i \in 1..r |-> IF i <= n THEN 40 ELSE 1] : n \in 0..r }

----------------------------------------------------------------------------
(* State machine *)

\* the parameters of lrqmc that the model reads; reg_coef enters only the
\* numbers behind the names of U and V, progress only prints
lrqmcArgs == <<mask, init_rank, max_iter, rot, rank_mult, return_norms>>

lrqmcLocals == <<seeded, X, X0, mask_c, c_rank, U, V, norms, flag, ix, updates>>

Init ==
    /\ fn = "none" /\ pc = "idle" /\ exc = "" /\ result = None
    /\ qmat = None /\ Q2 = None /\ C = None
    /\ mask = None /\ init_rank = None /\ max_iter = 0
    /\ rot = <<10, 1>> /\ rank_mult = <<9, 10>> /\ return_norms = FALSE
    /\ seeded = FALSE /\ X = None /\ X0 = None /\ mask_c = None
    /\ c_rank = 0 /\ U = None /\ V = None /\ norms = None
    /\ flag = FALSE /\ ix = 0 /\ updates = 0

\* the call ends with the outcome r
Finish(r) ==
    /\ exc' = r.exc
    /\ result' = r.val
    /\ pc' = IF r.exc = "" THEN "returned" ELSE "raised"

Call_conjugate ==
    /\ pc = "idle"
    /\ \E Q \in AlgTensors :
        /\ fn' = "conjugate" /\ qmat' = Q
        /\ Finish(conjugate(Q))
    /\ UNCHANGED <<Q2, C, lrqmcArgs, lrqmcLocals>>

Call_frobenius_norm ==
    /\ pc = "idle"
    /\ \E Q \in AlgTensors :
        /\ fn' = "frobenius_norm" /\ qmat' = Q
        /\ Finish(frobenius_norm(Q))
    /\ UNCHANGED <<Q2, C, lrqmcArgs, lrqmcLocals>>

Call_qdot ==
    /\ pc = "idle"
    /\ \E Q1 \in AlgTensors, Q2_ \in AlgTensors :
        /\ fn' = "qdot" /\ qmat' = Q1 /\ Q2' = Q2_
        /\ Finish(qdot(Q1, Q2_))
    /\ UNCHANGED <<C, lrqmcArgs, lrqmcLocals>>

Call_qm2cm ==
    /\ pc = "idle"
    /\ \E Q \in AlgTensors :
        \E m \in {None, MaskOf(Len(Q), Len(Q[1]), <<1, 1, 0>>)} :
            /\ fn' = "qm2cm" /\ qmat' = Q /\ mask' = m
            /\ Finish(qm2cm(Q, m))
    /\ UNCHANGED <<Q2, C, init_rank, max_iter, rot, rank_mult, return_norms,
                   lrqmcLocals>>

\* cm2qm on an arbitrary complex matrix
Call_cm2qm ==
    /\ pc = "idle"
    /\ \E C_ \in AlgMatrices :
        /\ fn' = "cm2qm" /\ C' = C_
        /\ Finish(cm2qm(C_))
    /\ UNCHANGED <<qmat, Q2, lrqmcArgs, lrqmcLocals>>

\* cm2qm(qm2cm(Q)[0]): cm2qm on the matrix a call of qm2cm returned
Call_cm2qm_of_qm2cm ==
    /\ fn = "qm2cm" /\ pc = "returned"
    /\ fn' = "cm2qm" /\ C' = result[1]
    /\ Finish(cm2qm(result[1]))
    /\ UNCHANGED <<qmat, Q2, lrqmcArgs, lrqmcLocals>>

\* linalg.py 183, 232-233: the call, X, mask_c = qm2cm(qmat, mask), X0 = X.copy()
lrqmc_entry ==
    /\ pc = "idle"
    /\ \E N \in 2..MaxDim, M \in 2..MaxDim, D \in LastAxes,
          mp \in MaskPatterns, blank \in BOOLEAN,
          r0 \in InitRanks, mi \in 0..MaxIter, ro \in Rots, rm \in RankMults :
        LET m == MaskOf(N, M, mp)
            \* an image that is zero everywhere is not drawn
            Q == IF blank /\ AnyObserved(m)
                 THEN Blanked(Tensor(N, M, D, 1, 2, 1), m)
                 ELSE Tensor(N, M, D, 1, 2, 1)
            r == qm2cm(Q, m)
        IN  /\ fn' = "lrqmc"
            /\ qmat' = Q /\ mask' = m /\ init_rank' = r0 /\ max_iter' = mi
            /\ rot' = ro /\ rank_mult' = rm
            /\ exc' = r.exc
            /\ IF r.exc # ""
               THEN /\ pc' = "raised"
                    /\ UNCHANGED <<X, X0, mask_c>>
               ELSE /\ pc' = "init"
                    /\ X' = KnownMatrix(r.val[1]) /\ mask_c' = r.val[2]
                    /\ X0' = KnownMatrix(r.val[1])
    /\ UNCHANGED <<result, Q2, C, return_norms, seeded, c_rank, U, V, norms,
                   flag, ix, updates>>

\* linalg.py 235-248: the initial rank, the seeded random factors, norms[0]
\* (generation 0 names the numbers np.random.uniform draws)
lrqmc_init ==
    /\ fn = "lrqmc" /\ pc = "init"
    /\ LET r == InitRank(init_rank, Shape0(qmat), Shape1(qmat))
       IN  /\ c_rank' = r
           /\ seeded' = TRUE
           /\ IF r < 0
              THEN \* np.random.uniform refuses a negative dimension
                   /\ pc' = "raised" /\ exc' = "ValueError"
                   /\ UNCHANGED <<U, V, norms, flag, ix>>
              ELSE /\ U' = FactorU(2 * Shape0(qmat), r, 0)
                   /\ V' = FactorV(r, 2 * Shape1(qmat), 0)
                   /\ norms' = [[k \in 1..(max_iter + 1) |-> ZeroNorm]
                                    EXCEPT ![1] = Norm(Residual(X, FactorDot(U', V')))]
                   /\ flag' = TRUE
                   /\ ix' = 0
                   /\ pc' = "loop" /\ UNCHANGED exc
    /\ UNCHANGED <<fn, result, qmat, Q2, C, lrqmcArgs, X, X0, mask_c, updates>>

\* linalg.py 250-254: the updates of U and V, and X with its known values
\* re-imposed.  U becomes the 2N x c_rank matrix that line 251 computes from
\* X, V and reg_coef, V the c_rank x 2M matrix that line 252 computes from the
\* new U, X and reg_coef; their entries are named by the generation.
lrqmc_update ==
    /\ fn = "lrqmc" /\ pc = "loop" /\ flag
    /\ U' = FactorU(Len(X), Len(V), updates + 1)
    /\ V' = FactorV(Len(U'[1]), Len(X[1]), updates + 1)
    /\ X' = Reimpose(X0, mask_c, FactorDot(U', V'))
    /\ updates' = updates + 1
    /\ pc' = "rank"
    /\ UNCHANGED <<fn, exc, result, qmat, Q2, C, lrqmcArgs, seeded, X0, mask_c,
                   c_rank, norms, flag, ix>>

\* linalg.py 256-264: the rank overestimation check
lrqmc_rank ==
    /\ fn = "lrqmc" /\ pc = "rank"
    /\ \E eigvs \in EigSeqs(c_rank) :
        IF Quots(eigvs) = <<>>
        THEN \* np.argmax of an empty sequence
             /\ pc' = "raised" /\ exc' = "ValueError"
             /\ UNCHANGED <<c_rank, U, V>>
        ELSE LET max_ind == ArgMax(Quots(eigvs))
                 mu == Mu(c_rank, eigvs, max_ind)
             IN  /\ pc' = "norm" /\ UNCHANGED exc
                 /\ IF Overestimated(mu, rot)
                    THEN /\ c_rank' = NewRank(max_ind, c_rank, rank_mult)
                         /\ U' = Columns(U, c_rank')
                         /\ V' = Rows(V, c_rank')
                    ELSE UNCHANGED <<c_rank, U, V>>
    /\ UNCHANGED <<fn, result, qmat, Q2, C, lrqmcArgs, seeded, X, X0, mask_c,
                   norms, flag, ix, updates>>

\* linalg.py 266-284: the new norm and the two termination tests
lrqmc_norm ==
    /\ fn = "lrqmc" /\ pc = "norm"
    /\ IF ix + 1 > Len(norms) - 1
       THEN \* norms[ix + 1] is out of bounds
            /\ pc' = "raised" /\ exc' = "IndexError"
            /\ UNCHANGED <<norms, flag, ix>>
       ELSE /\ norms' = [norms EXCEPT
                            ![ix + 2] = Norm(Residual(X, FactorDot(U, V)))]
            /\ pc' = "loop" /\ UNCHANGED exc
            /\ \E met \in ToleranceOutcomes(norms'[ix + 2], norms'[ix + 1], RelTol) :
                 IF met
                 THEN flag' = FALSE /\ UNCHANGED ix
                 ELSE IF ix >= max_iter
                      THEN flag' = FALSE /\ UNCHANGED ix
                      ELSE ix' = ix + 1 /\ UNCHANGED flag
    /\ UNCHANGED <<fn, result, qmat, Q2, C, lrqmcArgs, seeded, X, X0, mask_c,
                   c_rank, U, V, updates>>

\* linalg.py 286-289; return_norms is read here and nowhere else
lrqmc_return ==
    /\ fn = "lrqmc" /\ pc = "loop" /\ ~flag
    /\ \E rn \in BOOLEAN :
        /\ return_norms' = rn
        /\ result' = IF rn THEN <<cm2qm(X).val, U, V, norms>>
                           ELSE <<cm2qm(X).val, U, V>>
    /\ pc' = "returned"
    /\ UNCHANGED <<fn, exc, qmat, Q2, C, mask, init_rank, max_iter, rot,
                   rank_mult, lrqmcLocals>>

Next ==
    \/ Call_conjugate
    \/ Call_frobenius_norm
    \/ Call_qdot
    \/ Call_qm2cm
    \/ Call_cm2qm
    \/ Call_cm2qm_of_qm2cm
    \/ lrqmc_entry
    \/ lrqmc_init
    \/ lrqmc_update
    \/ lrqmc_rank
    \/ lrqmc_norm
    \/ lrqmc_return

Spec == Init /\ [][Next]_vars

----------------------------------------------------------------------------
(* Properties *)

Observed(i, j) == mask_c[i][j]

\* the pixel q as cm2qm returns it from exactly known entries
KnownPixel(q) ==
    [k \in 1..4 |-> [known |-> q[k],
                     part |-> IF k % 2 = 1 THEN "re" ELSE "im",
                     unknown |-> <<>>]]

\* C1: in lrqmc, from the first assignment of X to the return, every entry of
\* X at a True position of the tiled mask equals the entry of qm2cm(qmat) there,
\* and every observed pixel of the returned image equals the input pixel.
C1_MaskPinning ==
    (fn = "lrqmc" /\ X # None) =>
        /\ LET input == qm2cm(qmat, mask).val[1]
           IN  \A i \in 1..Len(X), j \in 1..Len(X[1]) :
                  Observed(i, j) => X[i][j] = Known(input[i][j])
        /\ pc = "returned" =>
              \A i \in 1..Len(qmat), j \in 1..Len(qmat[1]) :
                  mask[i][j] => result[1][i][j] = KnownPixel(qmat[i][j])

\* lrqmc has returned after two or more iterations on a partly observed image
\* whose rank was reduced; the unobserved pixels carry the estimate
C1_Witness ==
    /\ fn = "lrqmc" /\ pc = "returned" /\ updates >= 2
    /\ AnyObserved(mask)
    /\ \E i \in 1..Len(mask), j \in 1..Len(mask[1]) :
          ~mask[i][j] /\ result[1][i][j][1].unknown # <<>>
    /\ c_rank < InitRank(init_rank, Shape0(qmat), Shape1(qmat))
    /\ X # X0

\* C2: a run of lrqmc that never meets the tolerance ends without an
\* exception; in particular the norm sequence is never indexed out of range.
C2_ExhaustionReturns ==
    fn = "lrqmc" => exc # "IndexError"

\* C3: in the loop of lrqmc no step makes c_rank larger, and c_rank stays the
\* number of columns of U and of rows of V.
C3_RankNeverGrows ==
    [][(fn = "lrqmc" /\ pc \in {"loop", "rank", "norm"}) =>
          /\ c_rank' <= c_rank
          /\ Len(U'[1]) = c_rank'
          /\ Len(V') = c_rank']_vars

\* the overestimation check has just reduced the rank
C3_Witness ==
    /\ fn = "lrqmc" /\ pc = "norm"
    /\ c_rank < InitRank(init_rank, Shape0(qmat), Shape1(qmat))
    /\ Len(U[1]) = c_rank

\* C4: the rank with which lrqmc creates U and V lies in [2, min(N, M)].
C4_InitialRankClamped ==
    (fn = "lrqmc" /\ seeded /\ updates = 0) =>
        /\ 2 <= c_rank
        /\ c_rank <= Min(Shape0(qmat), Shape1(qmat))

\* C5: cm2qm(qm2cm(Q)[0]) returns Q, component for component.
C5_RoundTrip ==
    (fn = "cm2qm" /\ qmat # None) =>
        /\ pc = "returned"
        /\ result = qmat
        /\ Shape0(result) = Shape0(qmat) /\ Shape1(result) = Shape1(qmat)
        /\ Shape2(result) = 4

\* the round trip of a 2 x 2 quaternion matrix holding a pixel with four
\* distinct non-zero components
C5_Witness ==
    /\ fn = "cm2qm" /\ qmat # None /\ pc = "returned"
    /\ Shape0(qmat) = 2 /\ Shape1(qmat) = 2
    /\ \E i \in 1..2, j \in 1..2 : qmat[i][j] = <<1, -2, 3, -1>>

\* C6: conjugate, frobenius_norm, qdot and qm2cm raise ValueError on a last
\* axis that is not 4 (qdot also on mismatched inner dimensions), cm2qm on an
\* odd row or column count, and lrqmc on such a qmat before the generator is
\* seeded, before U, V, X and norms exist and before any iteration; no value
\* is returned.
C6_FailFast ==
    /\ (fn \in {"conjugate", "frobenius_norm", "qm2cm"} /\ Shape2(qmat) # 4) =>
          (pc = "raised" /\ exc = "ValueError" /\ result = None)
    /\ (fn = "qdot" /\ (Shape2(qmat) # 4 \/ Shape2(Q2) # 4
                           \/ Shape1(qmat) # Shape0(Q2))) =>
          (pc = "raised" /\ exc = "ValueError" /\ result = None)
    /\ (fn = "cm2qm" /\ ((Shape0(C) % 2) = 1 \/ (Shape1(C) % 2) = 1)) =>
          (pc = "raised" /\ exc = "ValueError" /\ result = None)
    /\ (fn = "lrqmc" /\ Shape2(qmat) # 4) =>
          /\ pc = "raised" /\ exc = "ValueError" /\ result = None
          /\ ~seeded /\ U = None /\ V = None /\ X = None /\ norms = None
          /\ updates = 0

\* lrqmc has raised on an image with five components per pixel
C6_Witness ==
    /\ fn = "lrqmc" /\ pc = "raised" /\ exc = "ValueError"
    /\ Shape2(qmat) = 5 /\ ~seeded

\* C7: qm2cm(qdot(Q1, Q2))[0] is the complex matrix product of qm2cm(Q1)[0]
\* and qm2cm(Q2)[0].
C7_EmbeddingMultiplicative ==
    (fn = "qdot" /\ pc = "returned") =>
        qm2cm(result, None).val[1]
            = CDot(qm2cm(qmat, None).val[1], qm2cm(Q2, None).val[1])

\* a product of two 2 x 2 quaternion matrices with a non-zero entry
C7_Witness ==
    /\ fn = "qdot" /\ pc = "returned"
    /\ Shape0(qmat) = 2 /\ Shape1(qmat) = 2 /\ Shape1(Q2) = 2
    /\ result[1][1] # <<0, 0, 0, 0>>
    /\ \E i \in 1..2, j \in 1..2 : Q2[i][j] = <<1, -2, 3, -1>>

\* C8: after lines 251-254 every unobserved entry of X equals the entry of
\* U.dot(V) there.
C8_UnobservedIsEstimate ==
    (fn = "lrqmc" /\ pc = "rank") =>
        LET estimate == FactorDot(U, V)
        IN  \A i \in 1..Len(X), j \in 1..Len(X[1]) :
                ~Observed(i, j) => X[i][j] = estimate[i][j]

\* C9: the norm sequence lrqmc returns has one entry per execution of the loop
\* body plus the entry of iteration 0.
C9_OneNormPerIteration ==
    (fn = "lrqmc" /\ pc = "returned" /\ return_norms) =>
        Len(result[4]) = updates + 1

\* C10: lines 251-254 are executed at most max_iter times.
C10_IterationCap ==
    fn = "lrqmc" => updates <= max_iter

====
